---- MODULE Spec2Model ----
(***************************************************************************)
(* A model of goware/tracer (tracer.go): the bounded group -> span ->      *)
(* entries store, its write path logger.log with the three evictions and   *)
(* the duplicate coalescing, the read path Logs, and Enable / Disable.     *)
(*                                                                         *)
(* Two specifications share the store operators:                           *)
(*   SpecSeq  one caller; every call of the public interface is one step.  *)
(*   Spec     several goroutines; every call is split at its lock          *)
(*            operations and at the statements of logger.log that write    *)
(*            one of the three maps.                                       *)
(***************************************************************************)
EXTENDS Integers, Sequences, FiniteSets, TLC

\* ------------------------------------------------------------------ bounds

\* Clock readings are 0..MaxTime; the clock never runs past MaxTime.
MaxTime == 2

\* The entries of the store have coalesced at most MaxRepeats duplicate writes
\* between them, and the tracked entry is written at most MaxRepeats + 1 times.
MaxRepeats == 1

\* Goroutines of the concurrent specification, and the calls they make
\* between them in a run.
NumThreads == 2

MaxCalls == 3

\* ------------------------------------------------------- program constants

DefaultGroupCount == 40

DefaultSpanCount == 60

DefaultMessageCount == 60

maxMsgLen == 1000

\* ------------------------------------------------------------------- state

VARIABLES
    logs,         \* tracer.logs: group -> span -> sequence of logEntry
    groupTS,      \* tracer.groupTS: group -> last written
    spanTS,       \* tracer.spanTS: group -> span -> last written
    enabled,      \* tracer.enabled
    numGroups,    \* tracer.numGroups
    numSpans,     \* tracer.numSpans
    numMessages,  \* tracer.numMessages
    mu,           \* tracer.mu: the RWMutex
    clock,        \* the last reading of time.Now()
    vocab,        \* the names and messages the callers of this run use
    pc,           \* per goroutine: where it stands in its call
    call,         \* per goroutine: the arguments and locals of its call
    ncalls,       \* calls the goroutines have made so far
    last,         \* history: the last completed call of the sequential caller
    probe         \* history: the writes of one (group, span, message, level)

store == <<logs, groupTS, spanTS>>

vars == <<logs, groupTS, spanTS, enabled, numGroups, numSpans, numMessages,
          mu, clock, vocab, pc, call, ncalls, last, probe>>

Threads == 1..NumThreads

\* ------------------------------------------------------------- Go's maps

EmptyMap == <<>>

MapSet(m, k, v) == [x \in (DOMAIN m) \cup {k} |-> IF x = k THEN v ELSE m[x]]

MapDelete(m, k) ==
    IF (DOMAIN m) \ {k} = {} THEN EmptyMap
    ELSE [x \in (DOMAIN m) \ {k} |-> m[x]]

\* The orders in which a range over a map with these keys may visit them.
RangeOrders(keys) ==
    IF keys = {} THEN {<<>>}
    ELSE {o \in [1..Cardinality(keys) -> keys] :
            \A i, j \in 1..Cardinality(keys) : i # j => o[i] # o[j]}

\* ------------------------------------------------------------------ time

\* After with its operands swapped.
AfterReversed(a, b) == a < b

After(a, b) == a > b

Before(a, b) == a < b

\* --------------------------------------------------------------- messages

\* A formatted message is its length in bytes, head, which stands for its
\* first maxMsgLen bytes (all of it when it is no longer), and rest, which
\* stands for the bytes after them.
Msg(text) == [head |-> text, len |-> IF text = "" THEN 0 ELSE 1, rest |-> ""]

\* A message of maxMsgLen + 1 bytes: the same first maxMsgLen bytes, then
\* the byte tail.
Long(tail) == [head |-> "L", len |-> maxMsgLen + 1, rest |-> tail]

\* len(msg).
MsgLen(msg) == msg.len

\* Truncate without lines 387-389.
TruncateNever(msg) == msg

\* Lines 387-389: msg[:maxMsgLen] of a longer message.
Truncate(msg) ==
    IF MsgLen(msg) > maxMsgLen
    THEN [head |-> msg.head, len |-> maxMsgLen, rest |-> ""]
    ELSE msg

\* ----------------------------------------------------- the store, as a value

Store == [logs |-> logs, groupTS |-> groupTS, spanTS |-> spanTS]

NewEntry(level, group, span, msg, now) ==
    [group |-> group, span |-> span, message |-> msg, level |-> level,
     time |-> now, count |-> 1]

\* The loop "for k, ts := range m { if first || ts.Before(oldestTime) ... }".
RECURSIVE OldestScan(_, _, _)
OldestScan(order, ts, acc) ==
    IF order = <<>> THEN acc
    ELSE LET k == Head(order)
         IN OldestScan(Tail(order), ts,
                IF acc.first \/ Before(ts[k], acc.time)
                THEN [key |-> k, time |-> ts[k], first |-> FALSE]
                ELSE acc)

FindOldest(order, ts) ==
    OldestScan(order, ts, [key |-> "", time |-> 0, first |-> TRUE]).key

\* "if oldestGroup != "" { // Ensure we found one".
FoundOne(oldest) == oldest # ""

\* EnsureGroup without line 341.
EnsureGroupKeepSpanTS(st, n, group, order) ==
    IF group \in DOMAIN st.logs THEN st
    ELSE LET full == Cardinality(DOMAIN st.groupTS) >= n /\ n > 0
             oldestGroup == FindOldest(order, st.groupTS)
             ev == IF full /\ FoundOne(oldestGroup)
                   THEN [logs    |-> MapDelete(st.logs, oldestGroup),
                         groupTS |-> MapDelete(st.groupTS, oldestGroup),
                         spanTS  |-> st.spanTS]
                   ELSE st
         IN [ev EXCEPT !.logs = MapSet(@, group, EmptyMap),
                       !.spanTS = MapSet(@, group, EmptyMap)]

\* Lines 325-347: evict the oldest group when the store is full, then create
\* the group's maps.  order is the order of the range over groupTS.
EnsureGroup(st, n, group, order) ==
    IF group \in DOMAIN st.logs THEN st
    ELSE LET full == Cardinality(DOMAIN st.groupTS) >= n /\ n > 0
             oldestGroup == FindOldest(order, st.groupTS)
             ev == IF full /\ FoundOne(oldestGroup)
                   THEN [logs    |-> MapDelete(st.logs, oldestGroup),
                         groupTS |-> MapDelete(st.groupTS, oldestGroup),
                         spanTS  |-> MapDelete(st.spanTS, oldestGroup)]
                   ELSE st
         IN [ev EXCEPT !.logs = MapSet(@, group, EmptyMap),
                       !.spanTS = MapSet(@, group, EmptyMap)]

\* TouchGroup stamping a group only when it is created.
TouchGroupOnCreate(st, group, now) ==
    IF group \in DOMAIN st.groupTS THEN st
    ELSE [st EXCEPT !.groupTS = MapSet(@, group, now)]

\* Line 349.
TouchGroup(st, group, now) == [st EXCEPT !.groupTS = MapSet(@, group, now)]

\* Lines 352-374: evict the oldest span when the group is full, then create
\* the span's slice.  order is the order of the range over spanTS[group].
EnsureSpan(st, n, group, span, order) ==
    IF span \in DOMAIN st.logs[group] THEN st
    ELSE LET full == Cardinality(DOMAIN st.spanTS[group]) >= n /\ n > 0
             oldestSpan == FindOldest(order, st.spanTS[group])
             ev == IF full /\ FoundOne(oldestSpan)
                   THEN [st EXCEPT
                           !.logs = MapSet(@, group, MapDelete(@[group], oldestSpan)),
                           !.spanTS = MapSet(@, group, MapDelete(@[group], oldestSpan))]
                   ELSE st
         IN [ev EXCEPT !.logs = MapSet(@, group, MapSet(@[group], span, <<>>))]

\* Line 376.
TouchSpan(st, group, span, now) ==
    [st EXCEPT !.spanTS = MapSet(@, group, MapSet(@[group], span, now))]

\* FindDuplicate without the comparison of levels.
FindDuplicateAnyLevel(s, msg, level) ==
    IF \E i \in 1..Len(s) : s[i].message = msg
    THEN CHOOSE i \in 1..Len(s) :
            /\ s[i].message = msg
            /\ \A j \in 1..(i - 1) : s[j].message # msg
    ELSE 0

\* The index of the first entry with this message and level, 0 if none
\* (the loop of lines 393-402).
FindDuplicate(s, msg, level) ==
    IF \E i \in 1..Len(s) : s[i].message = msg /\ s[i].level = level
    THEN CHOOSE i \in 1..Len(s) :
            /\ s[i].message = msg /\ s[i].level = level
            /\ \A j \in 1..(i - 1) : ~(s[j].message = msg /\ s[j].level = level)
    ELSE 0

\* AppendFIFO evicting the newest entry instead of the oldest.
AppendDropNewest(s, n, newEntry) ==
    IF Len(s) < n THEN Append(s, newEntry)
    ELSE IF n > 0 THEN Append(SubSeq(s, 1, Len(s) - 1), newEntry)
    ELSE <<>>

\* AppendFIFO turning the new entry away from a full span.
AppendRejectFull(s, n, newEntry) ==
    IF Len(s) < n THEN Append(s, newEntry) ELSE s

\* Lines 415-422.
AppendFIFO(s, n, newEntry) ==
    IF Len(s) < n THEN Append(s, newEntry)
    ELSE IF n > 0 THEN Append(Tail(s), newEntry)
    ELSE <<>>

\* Coalesce without line 397.
CoalesceKeepTime(s, i, now) == [s EXCEPT ![i].count = @ + 1]

\* Lines 396-397: a duplicate counts once more and is seen now.
Coalesce(s, i, now) == [s EXCEPT ![i].count = @ + 1, ![i].time = now]

\* Lines 379-424: drop an empty message, truncate, coalesce a duplicate or
\* append a new entry.  count is a uint32; the runs of the model coalesce at
\* most MaxRepeats writes, far from its wrap.
PutEntry(st, n, level, group, span, message, now) ==
    LET s == st.logs[group][span]
        msg == Truncate(message)
        i == FindDuplicate(s, msg, level)
        s2 == IF i # 0
              THEN Coalesce(s, i, now)
              ELSE AppendFIFO(s, n, NewEntry(level, group, span, msg, now))
    IN IF MsgLen(message) = 0 THEN st
       ELSE [st EXCEPT !.logs = MapSet(@, group, MapSet(@[group], span, s2))]

\* The whole critical section of logger.log (lines 322-424), for each order
\* in which the two range loops may visit their maps.
LogResults(st, nG, nS, nM, level, group, span, message, now) ==
    UNION {
        LET st1 == TouchGroup(EnsureGroup(st, nG, group, gOrder), group, now)
        IN { PutEntry(TouchSpan(EnsureSpan(st1, nS, group, span, sOrder),
                                group, span, now),
                      nM, level, group, span, message, now)
             : sOrder \in RangeOrders(DOMAIN st1.spanTS[group]) }
        : gOrder \in RangeOrders(DOMAIN st.groupTS) }

\* ------------------------------------------------------------- sort.Slice

\* sort.Slice on a short slice is an insertion sort: the last element moves
\* left while less(it, its left neighbour).  Elements are <<time, item>> and
\* less is "the time is After".
RECURSIVE SiftLeft(_, _)
SiftLeft(p, x) ==
    IF p = <<>> THEN <<x>>
    ELSE LET y == p[Len(p)]
         IN IF After(x[1], y[1])
            THEN Append(SiftLeft(SubSeq(p, 1, Len(p) - 1), x), y)
            ELSE Append(p, x)

RECURSIVE InsertionSort(_)
InsertionSort(s) ==
    IF s = <<>> THEN <<>>
    ELSE SiftLeft(InsertionSort(SubSeq(s, 1, Len(s) - 1)), s[Len(s)])

\* The span names of order, most recently written first (lines 148-152).
SortSpans(order, ts) ==
    LET sorted == InsertionSort([i \in 1..Len(order) |-> <<ts[order[i]], order[i]>>])
    IN [i \in 1..Len(sorted) |-> sorted[i][2]]

\* A copy of the entries, most recently seen first (lines 157-163).
SortEntries(entries) ==
    LET sorted == InsertionSort([i \in 1..Len(entries) |-> <<entries[i].time, entries[i]>>])
    IN [i \in 1..Len(sorted) |-> sorted[i][2]]

\* tracer.Logs under the read lock; order is the order of the range over
\* logs[group].
Logs(st, group, order) ==
    IF group \notin DOMAIN st.logs THEN <<>>
    ELSE LET spans == SortSpans(order, st.spanTS[group])
         IN [i \in 1..Len(spans) |-> SortEntries(st.logs[group][spans[i]])]

LogsResults(st, group) ==
    IF group \notin DOMAIN st.logs THEN {<<>>}
    ELSE {Logs(st, group, order) : order \in RangeOrders(DOMAIN st.logs[group])}

\* ------------------------------------------------------------ construction

NewTracerWithSizes(nG, nS, nM) ==
    [numGroups   |-> IF nG < 1 THEN DefaultGroupCount ELSE nG,
     numSpans    |-> IF nS < 1 THEN DefaultSpanCount ELSE nS,
     numMessages |-> IF nM < 1 THEN DefaultMessageCount ELSE nM]

\* Noop(): NewTracerWithSizes(1, 1, 1), then Disable().
Noop ==
    [sizes |-> <<1, 1, 1>>,
     groups |-> {"g1"}, spans |-> {"s1"},
     msgs |-> {Msg("a")}, levels |-> {"INFO"}, noop |-> TRUE]

\* The runs of the model: the sizes the store is built with and the names,
\* messages and levels its callers use.  Each run fills one level of the
\* store past its capacity, or mixes two levels:
\*   groups past maxGroups, the empty group name among them;
\*   spans past maxSpansPerGroup, the empty span name among them;
\*   distinct messages past maxMessagesPerSpan;
\*   one text at two levels, and the empty message;
\*   groups that hold several spans, evicted whole;
\*   empty messages that create and evict groups and spans;
\*   two spans of two entries each, for the read path;
\*   empty messages written to the empty group name;
\*   messages longer than maxMsgLen that differ after their first maxMsgLen
\*   bytes;
\*   the store that Noop returns.
Scenarios ==
    { [sizes |-> <<2, 1, 1>>,
       groups |-> {"", "g1", "g2"}, spans |-> {"s1"},
       msgs |-> {Msg("a")}, levels |-> {"INFO"}, noop |-> FALSE],
      [sizes |-> <<1, 2, 1>>,
       groups |-> {"g1"}, spans |-> {"", "s1", "s2"},
       msgs |-> {Msg("a")}, levels |-> {"INFO"}, noop |-> FALSE],
      [sizes |-> <<1, 1, 2>>,
       groups |-> {"g1"}, spans |-> {"s1"},
       msgs |-> {Msg("a"), Msg("b"), Msg("c")}, levels |-> {"INFO"}, noop |-> FALSE],
      [sizes |-> <<1, 1, 2>>,
       groups |-> {"g1"}, spans |-> {"s1"},
       msgs |-> {Msg(""), Msg("a")}, levels |-> {"INFO", "WARN"}, noop |-> FALSE],
      [sizes |-> <<1, 2, 1>>,
       groups |-> {"g1", "g2"}, spans |-> {"s1", "s2"},
       msgs |-> {Msg("a")}, levels |-> {"INFO"}, noop |-> FALSE],
      [sizes |-> <<1, 1, 1>>,
       groups |-> {"g1", "g2"}, spans |-> {"s1", "s2"},
       msgs |-> {Msg(""), Msg("a")}, levels |-> {"INFO"}, noop |-> FALSE],
      [sizes |-> <<1, 2, 2>>,
       groups |-> {"g1"}, spans |-> {"s1", "s2"},
       msgs |-> {Msg("a"), Msg("b")}, levels |-> {"INFO"}, noop |-> FALSE],
      [sizes |-> <<1, 1, 1>>,
       groups |-> {"", "g1"}, spans |-> {"s1"},
       msgs |-> {Msg(""), Msg("a")}, levels |-> {"INFO"}, noop |-> FALSE],
      [sizes |-> <<1, 1, 2>>,
       groups |-> {"g1"}, spans |-> {"s1"},
       msgs |-> {Long("x"), Long("y"), Msg("b")}, levels |-> {"INFO"},
       noop |-> FALSE],
      Noop }

\* The entry the probe follows.
TrackedEntry ==
    [group |-> "g1", span |-> "s1", message |-> Msg("a"), level |-> "INFO"]

InitStore(sc) ==
    LET t == NewTracerWithSizes(sc.sizes[1], sc.sizes[2], sc.sizes[3])
    IN /\ logs = EmptyMap
       /\ groupTS = EmptyMap
       /\ spanTS = EmptyMap
       /\ enabled = ~sc.noop
       /\ numGroups = t.numGroups
       /\ numSpans = t.numSpans
       /\ numMessages = t.numMessages
       /\ mu = [w |-> 0, readers |-> {}]
       /\ clock = 0
       /\ vocab = sc
       /\ last = [op |-> "NewTracerWithSizes"]
       /\ probe = [n |-> 0, since |-> 0, t |-> 0, lost |-> FALSE, dropped |-> FALSE]

\* ------------------------------------------------------ history variables

Present(st, k) ==
    /\ k.group \in DOMAIN st.logs
    /\ k.span \in DOMAIN st.logs[k.group]
    /\ \E i \in 1..Len(st.logs[k.group][k.span]) :
          /\ st.logs[k.group][k.span][i].message = k.message
          /\ st.logs[k.group][k.span][i].level = k.level

\* The probe after a write that ran on an enabled store.
ProbeAfter(pre, post, level, group, span, message, now) ==
    LET k == TrackedEntry
        hit == /\ group = k.group /\ span = k.span
               /\ Truncate(message) = k.message /\ level = k.level
    IN IF hit
       THEN [n |-> probe.n + 1,
             since |-> IF Present(pre, k) THEN probe.since + 1 ELSE 1,
             t |-> now,
             lost |-> probe.lost,
             dropped |-> probe.dropped]
       ELSE [probe EXCEPT !.lost = @ \/ (Present(pre, k) /\ ~Present(post, k))]

\* What a write did to the store, read off the stores before and after it.
Effect(pre, post, level, group, span, message) ==
    LET hadGroup == group \in DOMAIN pre.logs
        hadSpan == hadGroup /\ span \in DOMAIN pre.logs[group]
        before == IF hadSpan THEN pre.logs[group][span] ELSE <<>>
    IN [newGroup |-> ~hadGroup,
        groupsBefore |-> Cardinality(DOMAIN pre.logs),
        evictedGroups |-> (DOMAIN pre.logs) \ (DOMAIN post.logs),
        newSpan |-> ~hadSpan,
        spansBefore |-> IF hadGroup THEN Cardinality(DOMAIN pre.logs[group]) ELSE 0,
        evictedSpans |-> IF hadGroup
                         THEN (DOMAIN pre.logs[group]) \ (DOMAIN post.logs[group])
                         ELSE {},
        entriesBefore |-> Len(before),
        removed |-> IF hadSpan /\ span \in DOMAIN post.logs[group]
                    THEN {before[i] : i \in {j \in 1..Len(before) :
                             FindDuplicate(post.logs[group][span],
                                           before[j].message, before[j].level) = 0}}
                    ELSE {},
        duplicate |-> FindDuplicate(before, Truncate(message), level) # 0]

\* The duplicate writes the entries of a slice have coalesced.
RECURSIVE Repeats(_)
Repeats(s) == IF s = <<>> THEN 0 ELSE (Head(s).count - 1) + Repeats(Tail(s))

RECURSIVE RepeatsOfSpans(_, _)
RepeatsOfSpans(spans, names) ==
    IF names = {} THEN 0
    ELSE LET sp == CHOOSE x \in names : TRUE
         IN Repeats(spans[sp]) + RepeatsOfSpans(spans, names \ {sp})

RECURSIVE RepeatsOfGroups(_, _)
RepeatsOfGroups(groups, names) ==
    IF names = {} THEN 0
    ELSE LET g == CHOOSE x \in names : TRUE
         IN RepeatsOfSpans(groups[g], DOMAIN groups[g])
            + RepeatsOfGroups(groups, names \ {g})

\* The counts of the store are within the model's bound.
CountsWithin(st) == RepeatsOfGroups(st.logs, DOMAIN st.logs) <= MaxRepeats

ClockReadings == {t \in {clock, clock + 1} : t <= MaxTime}

\* The probe after a write of the tracked entry that found the store disabled.
ProbeDropped(level, group, span, message) ==
    LET k == TrackedEntry
        hit == /\ group = k.group /\ span = k.span
               /\ Truncate(message) = k.message /\ level = k.level
    IN [probe EXCEPT !.dropped = @ \/ (hit /\ probe.n >= 1)]

\* ------------------------------------------------- the read path: ToMap

\* The bytes of the names the callers use.
Bytes(name) ==
    CASE name = ""    -> <<>>
      [] name = "g1"  -> <<"g", "1">>
      [] name = "g10" -> <<"g", "1", "0">>
      [] name = "g2"  -> <<"g", "2">>
      [] name = "s1"  -> <<"s", "1">>
      [] name = "s10" -> <<"s", "1", "0">>
      [] name = "s2"  -> <<"s", "2">>

\* strings.HasPrefix.
HasPrefix(s, prefix) ==
    /\ Len(Bytes(s)) >= Len(Bytes(prefix))
    /\ SubSeq(Bytes(s), 1, Len(Bytes(prefix))) = Bytes(prefix)

\* Passes asking for the name itself instead of a prefix of it.
PassesExact(name, filter) == ~(filter # "" /\ name # filter)

\* Lines 182 and 205: a name passes unless the filter is set and is not a
\* prefix of it.
Passes(name, filter) == ~(filter # "" /\ ~HasPrefix(name, filter))

\* Lines 180-186 and 203-209: the names of the map, in the order of the range
\* over it, that pass the filter.
RECURSIVE Collect(_, _)
Collect(order, filter) ==
    IF order = <<>> THEN <<>>
    ELSE IF Passes(Head(order), filter)
         THEN <<Head(order)>> \o Collect(Tail(order), filter)
         ELSE Collect(Tail(order), filter)

\* SortGroups putting the group written longest ago first.
SortGroupsOldestFirst(names, ts) ==
    LET sorted == InsertionSort([i \in 1..Len(names) |-> <<0 - ts[names[i]], names[i]>>])
    IN [i \in 1..Len(sorted) |-> sorted[i][2]]

\* Lines 188-192: the group names, most recently written first.
SortGroups(names, ts) ==
    LET sorted == InsertionSort([i \in 1..Len(names) |-> <<ts[names[i]], names[i]>>])
    IN [i \in 1..Len(sorted) |-> sorted[i][2]]

\* CopyAndSort sorting the slice of the store itself.
SortInPlace(entries) == [out |-> SortEntries(entries), kept |-> SortEntries(entries)]

\* Lines 157-163 and 225-230: the entries are copied and the copy is sorted.
\* out is the sorted copy, kept the slice of the store after the sort.
CopyAndSort(entries) == [out |-> SortEntries(entries), kept |-> entries]

\* logEntry.TimeAgo at the clock reading now, a tick of the clock being one
\* second: seconds, minutes and seconds, hours and minutes, or the date.
TimeAgo(time, now) ==
    LET d == now - time
    IN IF d < 60 THEN <<d, "s ago">>
       ELSE IF d < 3600 THEN <<d \div 60, "m", d % 60, "s ago">>
       ELSE IF d < 86400
            THEN IF (d \div 60) % 60 = 0
                 THEN <<d \div 3600, "h ago">>
                 ELSE <<d \div 3600, "h", (d \div 60) % 60, "m ago">>
       ELSE <<"RFC822", time>>

\* logEntry.FormattedMessage: "<time> - [<level>] <message>", followed by
\* " [x<count>]" when the entry has coalesced writes.
FormattedMessage(entry, withExactTime, now) ==
    LET stamp == IF withExactTime THEN <<"RFC822", entry.time>>
                 ELSE TimeAgo(entry.time, now)
        out == <<stamp, " - [", entry.level, "] ", entry.message>>
    IN IF entry.count > 1 THEN out \o <<" [x", entry.count, "]">> ELSE out

\* Lines 232-235.
FormatEntries(entries, withExactTime, now) ==
    [i \in 1..Len(entries) |-> FormattedMessage(entries[i], withExactTime, now)]

\* json.Marshal of a string or of a list of strings.
Marshal(v) == <<"json", v>>

\* Lines 203-215 for one group: the span names that pass the filter, most
\* recently written first, for each order of the range over logs[group].
SortedSpanNames(st, group, spanFilter) ==
    {SortSpans(Collect(order, spanFilter), st.spanTS[group]) :
        order \in RangeOrders(DOMAIN st.logs[group])}

\* Lines 217-240 for one group: groupMap is the map of line 217, json the
\* members written to jsonBuf in the order written, and kept the spans of
\* the group after the call.
ToMapGroup(st, group, withExactTime, spanFilter, spanNames, now) ==
    LET shown == {spanNames[j] : j \in 1..Len(spanNames)}
        sorted == [span \in shown |-> CopyAndSort(st.logs[group][span])]
        lines == [span \in shown |->
                     FormatEntries(sorted[span].out, withExactTime, now)]
    IN [groupMap |-> IF shown = {} THEN EmptyMap ELSE lines,
        json |-> [j \in 1..Len(spanNames) |->
                     <<Marshal(spanNames[j]), Marshal(lines[spanNames[j]])>>],
        kept |-> [span \in DOMAIN st.logs[group] |->
                     IF span \in shown THEN sorted[span].kept
                     ELSE st.logs[group][span]]]

\* Lines 180-192: the group names that pass the filter, most recently
\* written first, for each order of the range over logs.
SortedGroupNames(st, groupFilter) ==
    {SortGroups(Collect(order, groupFilter), st.groupTS) :
        order \in RangeOrders(DOMAIN st.logs)}

\* The sorted span names of each of these groups, for each choice of the
\* orders of the ranges over their spans.
SortedSpanNamesOf(st, visited, spanFilter) ==
    IF visited = {} THEN {EmptyMap}
    ELSE {f \in [visited -> UNION {SortedSpanNames(st, g, spanFilter) : g \in visited}] :
            \A g \in visited : f[g] \in SortedSpanNames(st, g, spanFilter)}

\* tracer.ToMap under the read lock, lines 194-249: groups are the sorted
\* group names and spanNames[group] the sorted span names of each.  m and
\* json are the two results, logs the bucket map after the call.
ToMap(st, withExactTime, spanFilter, groups, spanNames, now) ==
    LET visited == {groups[i] : i \in 1..Len(groups)}
        of == [group \in visited |->
                  ToMapGroup(st, group, withExactTime, spanFilter,
                             spanNames[group], now)]
    IN [m |-> IF visited = {} THEN EmptyMap
              ELSE [group \in visited |-> of[group].groupMap],
        json |-> [i \in 1..Len(groups) |->
                     <<Marshal(groups[i]), of[groups[i]].json>>],
        logs |-> IF DOMAIN st.logs = {} THEN EmptyMap
                 ELSE [group \in DOMAIN st.logs |->
                          IF group \in visited THEN of[group].kept
                          ELSE st.logs[group]]]

ToMapResults(st, withExactTime, groupFilter, spanFilter, now) ==
    UNION { { ToMap(st, withExactTime, spanFilter, groups, spanNames, now) :
                spanNames \in SortedSpanNamesOf(
                                  st, {groups[i] : i \in 1..Len(groups)}, spanFilter) }
            : groups \in SortedGroupNames(st, groupFilter) }

\* tracer.ListGroups and tracer.ListSpans: the keys in the order of the range.
ListGroups(st) == RangeOrders(DOMAIN st.logs)

ListSpans(st, group) ==
    IF group \in DOMAIN st.logs THEN RangeOrders(DOMAIN st.logs[group])
    ELSE {<<>>}

\* The bucket map after tracer.Logs, which sorts a copy of each span's
\* entries (lines 156-163).
LogsStore(st, group) ==
    IF group \notin DOMAIN st.logs THEN st.logs
    ELSE [st.logs EXCEPT ![group] =
             [span \in DOMAIN @ |-> CopyAndSort(@[span]).kept]]

\* ------------------------------------------- the sequential specification

\* IsEnabled of a store that cannot be disabled.
IsEnabledAlways == TRUE

\* tracer.IsEnabled.
IsEnabled == enabled

threadVars == <<mu, pc, call, ncalls>>

sizeVars == <<numGroups, numSpans, numMessages, vocab>>

\* Info / Warn / Error on a handle for (group, span): IsEnabled, and on an
\* enabled store the critical section at the clock reading now.
SeqLog(level, group, span, message) ==
    /\ IF ~IsEnabled
       THEN /\ UNCHANGED <<logs, groupTS, spanTS, clock>>
            /\ probe' = ProbeDropped(level, group, span, message)
            /\ last' = [op |-> "log", ran |-> FALSE, level |-> level,
                        group |-> group, span |-> span, message |-> message,
                        now |-> clock]
       ELSE \E now \in ClockReadings :
            \E post \in LogResults(Store, numGroups, numSpans, numMessages,
                                   level, group, span, message, now) :
               /\ CountsWithin(post)
               /\ logs' = post.logs
               /\ groupTS' = post.groupTS
               /\ spanTS' = post.spanTS
               /\ clock' = now
               /\ probe' = ProbeAfter(Store, post, level, group, span, message, now)
               /\ probe'.n <= MaxRepeats + 1
               /\ last' = [op |-> "log", ran |-> TRUE, level |-> level,
                           group |-> group, span |-> span, message |-> message,
                           now |-> now,
                           did |-> Effect(Store, post, level, group, span, message)]
    /\ UNCHANGED <<enabled, sizeVars, threadVars>>

SeqEnable ==
    /\ enabled' = TRUE
    /\ last' = [op |-> "Enable"]
    /\ UNCHANGED <<logs, groupTS, spanTS, clock, probe, sizeVars, threadVars>>

SeqDisable ==
    /\ enabled' = FALSE
    /\ last' = [op |-> "Disable"]
    /\ UNCHANGED <<logs, groupTS, spanTS, clock, probe, sizeVars, threadVars>>

SeqLogs(group) ==
    /\ \E ret \in LogsResults(Store, group) :
          last' = [op |-> "Logs", group |-> group, ret |-> ret]
    /\ logs' = LogsStore(Store, group)
    /\ UNCHANGED <<groupTS, spanTS, enabled, clock, probe, sizeVars, threadVars>>

\* ToMap; the timezone only tells in which zone a date is written.  With
\* withExactTime false the entries are formatted by TimeAgo, which reads the
\* clock.
SeqToMap(withExactTime, groupFilter, spanFilter) ==
    /\ \E now \in IF withExactTime THEN {clock} ELSE ClockReadings :
       \E ret \in ToMapResults(Store, withExactTime, groupFilter, spanFilter, now) :
          /\ clock' = now
          /\ logs' = ret.logs
          /\ last' = [op |-> "ToMap", withExactTime |-> withExactTime,
                      groupFilter |-> groupFilter, spanFilter |-> spanFilter,
                      now |-> now, m |-> ret.m, json |-> ret.json]
    /\ UNCHANGED <<groupTS, spanTS, enabled, probe, sizeVars, threadVars>>

SeqListGroups ==
    /\ \E ret \in ListGroups(Store) : last' = [op |-> "ListGroups", ret |-> ret]
    /\ UNCHANGED <<logs, groupTS, spanTS, enabled, clock, probe, sizeVars, threadVars>>

SeqListSpans(group) ==
    /\ \E ret \in ListSpans(Store, group) :
          last' = [op |-> "ListSpans", group |-> group, ret |-> ret]
    /\ UNCHANGED <<logs, groupTS, spanTS, enabled, clock, probe, sizeVars, threadVars>>

SeqIsEnabled ==
    /\ last' = [op |-> "IsEnabled", ret |-> IsEnabled]
    /\ UNCHANGED <<logs, groupTS, spanTS, enabled, clock, probe, sizeVars, threadVars>>

InitSeq ==
    /\ \E sc \in Scenarios : InitStore(sc)
    /\ pc = [t \in Threads |-> "idle"]
    /\ call = [t \in Threads |-> [op |-> "none"]]
    /\ ncalls = 0

NextSeq ==
    \/ \E level \in vocab.levels, group \in vocab.groups,
          span \in vocab.spans, message \in vocab.msgs :
          SeqLog(level, group, span, message)
    \/ SeqEnable
    \/ SeqDisable
    \/ \E group \in vocab.groups : SeqLogs(group)

SpecSeq == InitSeq /\ [][NextSeq]_vars

\* ------------------------------------- the specification of the read calls

\* The runs that read the store back: three groups of which a filter picks
\* two, two of three spans of which a filter picks both or one, and a span
\* of two entries, read with TimeAgo too.
ReadScenarios ==
    { [sizes |-> <<3, 1, 1>>,
       groups |-> {"g1", "g10", "g2"}, spans |-> {"s1"},
       msgs |-> {Msg("a")}, levels |-> {"INFO"}, noop |-> FALSE,
       groupFilters |-> {"", "g1"}, spanFilters |-> {""}, exact |-> {TRUE}],
      [sizes |-> <<1, 2, 1>>,
       groups |-> {"g1"}, spans |-> {"s1", "s10", "s2"},
       msgs |-> {Msg("a")}, levels |-> {"INFO"}, noop |-> FALSE,
       groupFilters |-> {""}, spanFilters |-> {"", "s1"}, exact |-> {TRUE}],
      [sizes |-> <<1, 1, 2>>,
       groups |-> {"g1"}, spans |-> {"s1"},
       msgs |-> {Msg("a"), Msg("b")}, levels |-> {"INFO"}, noop |-> FALSE,
       groupFilters |-> {""}, spanFilters |-> {""}, exact |-> {FALSE, TRUE}] }

InitRead ==
    /\ \E sc \in ReadScenarios : InitStore(sc)
    /\ pc = [t \in Threads |-> "idle"]
    /\ call = [t \in Threads |-> [op |-> "none"]]
    /\ ncalls = 0

NextRead ==
    \/ \E level \in vocab.levels, group \in vocab.groups,
          span \in vocab.spans, message \in vocab.msgs :
          SeqLog(level, group, span, message)
    \/ SeqEnable
    \/ SeqDisable
    \/ \E group \in vocab.groups : SeqLogs(group)
    \/ \E withExactTime \in vocab.exact, groupFilter \in vocab.groupFilters,
          spanFilter \in vocab.spanFilters :
          SeqToMap(withExactTime, groupFilter, spanFilter)
    \/ SeqListGroups
    \/ \E group \in vocab.groups : SeqListSpans(group)
    \/ SeqIsEnabled

SpecRead == InitRead /\ [][NextRead]_vars

\* ------------------------------------------- the concurrent specification

\* The goroutines' runs: a store of one group and one span, and two names
\* for each, the empty name among them.
ConcScenarios ==
    { [sizes |-> <<1, 1, 1>>,
       groups |-> {"", "g1"}, spans |-> {"", "s1"},
       msgs |-> {Msg("a")}, levels |-> {"INFO"}, noop |-> FALSE] }

histVars == <<last, probe>>

Idle == [op |-> "none"]

\* Where a goroutine stands, by the line of tracer.go it executes next.
\* A goroutine at a line of InLock holds the write lock.
InLock == {"L255", "L261", "L322", "L349", "L352", "L376", "L379"}

\* A goroutine at one of these has l.tracer.mu.Lock() or t.mu.Lock() under
\* way: it holds the RWMutex's writer mutex, which keeps new readers out,
\* and waits for the readers that are in to leave.
Draining == {"L253w", "L259w", "L319w"}

Goto(t, line) == pc' = [pc EXCEPT ![t] = line]

Return(t) ==
    /\ pc' = [pc EXCEPT ![t] = "idle"]
    /\ call' = [call EXCEPT ![t] = Idle]

\* A goroutine calls Info / Warn / Error on a handle (logger.log opens with
\* IsEnabled), Enable, Disable, Logs or IsEnabled.
CallLog(t, level, group, span, message) ==
    /\ pc[t] = "idle" /\ ncalls < MaxCalls
    /\ call' = [call EXCEPT ![t] = [op |-> "log", level |-> level, group |-> group,
                                     span |-> span, message |-> message]]
    /\ Goto(t, "L265")
    /\ ncalls' = ncalls + 1
    /\ UNCHANGED <<store, enabled, mu, clock, sizeVars, histVars>>

CallEnable(t) ==
    /\ pc[t] = "idle" /\ ncalls < MaxCalls
    /\ call' = [call EXCEPT ![t] = [op |-> "Enable"]]
    /\ Goto(t, "L253")
    /\ ncalls' = ncalls + 1
    /\ UNCHANGED <<store, enabled, mu, clock, sizeVars, histVars>>

CallDisable(t) ==
    /\ pc[t] = "idle" /\ ncalls < MaxCalls
    /\ call' = [call EXCEPT ![t] = [op |-> "Disable"]]
    /\ Goto(t, "L259")
    /\ ncalls' = ncalls + 1
    /\ UNCHANGED <<store, enabled, mu, clock, sizeVars, histVars>>

CallLogs(t, group) ==
    /\ pc[t] = "idle" /\ ncalls < MaxCalls
    /\ call' = [call EXCEPT ![t] = [op |-> "Logs", group |-> group]]
    /\ Goto(t, "L136")
    /\ ncalls' = ncalls + 1
    /\ UNCHANGED <<store, enabled, mu, clock, sizeVars, histVars>>

CallIsEnabled(t) ==
    /\ pc[t] = "idle" /\ ncalls < MaxCalls
    /\ call' = [call EXCEPT ![t] = [op |-> "IsEnabled"]]
    /\ Goto(t, "L265")
    /\ ncalls' = ncalls + 1
    /\ UNCHANGED <<store, enabled, mu, clock, sizeVars, histVars>>

\* A reader that returns without its deferred RUnlock.
RUnlockMissing(readers, t) == readers

\* The deferred t.mu.RUnlock() of lines 137 and 266.
RUnlock(readers, t) == readers \ {t}

\* t.mu.RLock() of IsEnabled (line 265) and of Logs (line 136): a reader
\* gets in unless a writer holds or awaits the lock.
RLock(t) ==
    /\ pc[t] \in {"L265", "L136"}
    /\ mu.w = 0
    /\ mu' = [mu EXCEPT !.readers = @ \cup {t}]
    /\ Goto(t, IF pc[t] = "L265" THEN "L267" ELSE "L139")
    /\ UNCHANGED <<store, enabled, clock, sizeVars, histVars, call, ncalls>>

\* Line 267 and the deferred RUnlock: IsEnabled returns the flag; logger.log
\* returns at once if it is false (lines 315-317) and goes on to line 319
\* otherwise.
IsEnabledReturn(t) ==
    /\ pc[t] = "L267"
    /\ mu' = [mu EXCEPT !.readers = RUnlock(@, t)]
    /\ IF call[t].op = "log" /\ IsEnabled
       THEN Goto(t, "L319") /\ UNCHANGED call
       ELSE Return(t)
    /\ UNCHANGED <<store, enabled, clock, sizeVars, histVars, ncalls>>

\* Lines 139-167 and the deferred RUnlock: Logs builds its result and returns.
LogsReturn(t) ==
    /\ pc[t] = "L139"
    /\ LogsResults(Store, call[t].group) # {}
    /\ mu' = [mu EXCEPT !.readers = RUnlock(@, t)]
    /\ Return(t)
    /\ UNCHANGED <<store, enabled, clock, sizeVars, histVars, ncalls>>

\* mu.Lock(), first half (lines 253, 259, 319): take the writer mutex.
LockBegin(t) ==
    /\ pc[t] \in {"L253", "L259", "L319"}
    /\ mu.w = 0
    /\ mu' = [mu EXCEPT !.w = t]
    /\ Goto(t, CASE pc[t] = "L253" -> "L253w"
                 [] pc[t] = "L259" -> "L259w"
                 [] pc[t] = "L319" -> "L319w")
    /\ UNCHANGED <<store, enabled, clock, sizeVars, histVars, call, ncalls>>

\* mu.Lock(), second half: the readers have left, the lock is held.
LockEnd(t) ==
    /\ pc[t] \in Draining
    /\ mu.readers = {}
    /\ Goto(t, CASE pc[t] = "L253w" -> "L255"
                 [] pc[t] = "L259w" -> "L261"
                 [] pc[t] = "L319w" -> "L322")
    /\ UNCHANGED <<store, enabled, mu, clock, sizeVars, histVars, call, ncalls>>

\* Line 255 (Enable) or 261 (Disable) and the deferred Unlock.
SetEnabled(t) ==
    /\ pc[t] \in {"L255", "L261"}
    /\ enabled' = (pc[t] = "L255")
    /\ mu' = [mu EXCEPT !.w = 0]
    /\ Return(t)
    /\ UNCHANGED <<store, clock, sizeVars, histVars, ncalls>>

SetStore(st) ==
    /\ logs' = st.logs
    /\ groupTS' = st.groupTS
    /\ spanTS' = st.spanTS

\* Lines 322-347: read the clock, make sure the group exists.
LogGroup(t) ==
    /\ pc[t] = "L322"
    /\ \E now \in ClockReadings, order \in RangeOrders(DOMAIN groupTS) :
          /\ clock' = now
          /\ call' = [call EXCEPT ![t] =
                        [op |-> "log", level |-> @.level, group |-> @.group,
                         span |-> @.span, message |-> @.message, timeNow |-> now]]
          /\ SetStore(EnsureGroup(Store, numGroups, call[t].group, order))
    /\ Goto(t, "L349")
    /\ UNCHANGED <<enabled, mu, sizeVars, histVars, ncalls>>

\* Line 349.
LogGroupTS(t) ==
    /\ pc[t] = "L349"
    /\ SetStore(TouchGroup(Store, call[t].group, call[t].timeNow))
    /\ Goto(t, "L352")
    /\ UNCHANGED <<enabled, mu, clock, sizeVars, histVars, call, ncalls>>

\* Lines 352-374: make sure the span exists.
LogSpan(t) ==
    /\ pc[t] = "L352"
    /\ \E order \in RangeOrders(DOMAIN spanTS[call[t].group]) :
          SetStore(EnsureSpan(Store, numSpans, call[t].group, call[t].span, order))
    /\ Goto(t, "L376")
    /\ UNCHANGED <<enabled, mu, clock, sizeVars, histVars, call, ncalls>>

\* Line 376.
LogSpanTS(t) ==
    /\ pc[t] = "L376"
    /\ SetStore(TouchSpan(Store, call[t].group, call[t].span, call[t].timeNow))
    /\ Goto(t, "L379")
    /\ UNCHANGED <<enabled, mu, clock, sizeVars, histVars, call, ncalls>>

\* Lines 379-424 and the deferred Unlock.
LogEntry(t) ==
    /\ pc[t] = "L379"
    /\ SetStore(PutEntry(Store, numMessages, call[t].level, call[t].group,
                         call[t].span, call[t].message, call[t].timeNow))
    /\ mu' = [mu EXCEPT !.w = 0]
    /\ Return(t)
    /\ UNCHANGED <<enabled, clock, sizeVars, histVars, ncalls>>

Init ==
    /\ \E sc \in ConcScenarios : InitStore(sc)
    /\ pc = [t \in Threads |-> "idle"]
    /\ call = [t \in Threads |-> Idle]
    /\ ncalls = 0

Next ==
    \E t \in Threads :
        \/ \E level \in vocab.levels, group \in vocab.groups,
              span \in vocab.spans, message \in vocab.msgs :
              CallLog(t, level, group, span, message)
        \/ CallEnable(t)
        \/ CallDisable(t)
        \/ \E group \in vocab.groups : CallLogs(t, group)
        \/ CallIsEnabled(t)
        \/ RLock(t)
        \/ IsEnabledReturn(t)
        \/ LogsReturn(t)
        \/ LockBegin(t)
        \/ LockEnd(t)
        \/ SetEnabled(t)
        \/ LogGroup(t)
        \/ LogGroupTS(t)
        \/ LogSpan(t)
        \/ LogSpanTS(t)
        \/ LogEntry(t)

Spec == Init /\ [][Next]_vars

\* The steps of goroutine t inside a call it has started.
Step(t) ==
    \/ IsEnabledReturn(t) \/ LogsReturn(t) \/ LockEnd(t) \/ SetEnabled(t)
    \/ LogGroup(t) \/ LogGroupTS(t) \/ LogSpan(t) \/ LogSpanTS(t) \/ LogEntry(t)

\* The scheduler runs every goroutine that can run, and a goroutine that
\* waits in RLock or Lock gets the mutex if it is free again and again: the
\* writer mutex hands over to its oldest waiter (starvation mode), and the
\* readers that a writer has kept out are let in when it unlocks.
Fairness ==
    \A t \in Threads :
        /\ WF_vars(Step(t))
        /\ SF_vars(RLock(t))
        /\ SF_vars(LockBegin(t))

\* The runs under fairness: the goroutines share one group, one span and
\* one message, which is all the locking depends on.
FairScenarios ==
    { [sizes |-> <<1, 1, 1>>,
       groups |-> {"g1"}, spans |-> {"s1"},
       msgs |-> {Msg("a")}, levels |-> {"INFO"}, noop |-> FALSE] }

InitFair ==
    /\ \E sc \in FairScenarios : InitStore(sc)
    /\ pc = [t \in Threads |-> "idle"]
    /\ call = [t \in Threads |-> Idle]
    /\ ncalls = 0

SpecFair == InitFair /\ [][Next]_vars /\ Fairness

\* ------------------------------------------------------------------ claims

\* The (message, level) pairs of a span's entries, in slice order.
Keys(s) == [i \in 1..Len(s) |-> <<s[i].message, s[i].level>>]

HasKey(s, message, level) == \E i \in 1..Len(s) : Keys(s)[i] = <<message, level>>

\* The step is a write that ran its critical section (the store was enabled).
WriteRan == last'.op = "log" /\ last'.ran

\* C1: in every reachable state the store holds at most maxGroups groups and
\* every group holds at most maxSpansPerGroup spans, whatever names were
\* written, the empty group name and the empty span name included.
C1_CapacityBounds ==
    /\ Cardinality(DOMAIN logs) <= numGroups
    /\ \A g \in DOMAIN logs : Cardinality(DOMAIN logs[g]) <= numSpans

SpanLenBound ==
    \A g \in DOMAIN logs : \A sp \in DOMAIN logs[g] :
        Len(logs[g][sp]) <= numMessages

FIFOStep ==
    \A g \in DOMAIN logs : \A sp \in DOMAIN logs[g] :
        (WriteRan /\ last'.group = g /\ last'.span = sp /\ MsgLen(last'.message) # 0) =>
            LET s == logs[g][sp]
                msg == Truncate(last'.message)
                new == [group |-> g, span |-> sp, message |-> msg,
                        level |-> last'.level, time |-> last'.now, count |-> 1]
            IN /\ g \in DOMAIN logs' /\ sp \in DOMAIN logs'[g]
               /\ HasKey(s, msg, last'.level) => Keys(logs'[g][sp]) = Keys(s)
               /\ (~HasKey(s, msg, last'.level) /\ Len(s) < numMessages)
                     => logs'[g][sp] = Append(s, new)
               /\ (~HasKey(s, msg, last'.level) /\ Len(s) >= numMessages)
                     => logs'[g][sp] = Append(Tail(s), new)

\* C2: a span never holds more than maxMessagesPerSpan entries; a new
\* distinct (message, level) arriving at a full span removes the entry
\* inserted earliest and is appended, and a duplicate write leaves the
\* insertion order as it is.
C2_EntriesBoundedFIFO == []SpanLenBound /\ [][FIFOStep]_vars

\* A new entry has just pushed out an entry that had been seen more
\* recently than an entry that stays.
C2_Witness ==
    /\ last.op = "log" /\ last.ran
    /\ ~last.did.duplicate /\ ~last.did.newSpan
    /\ last.did.entriesBefore = numMessages /\ numMessages >= 2
    /\ \E r \in last.did.removed :
          /\ r.count >= 2
          /\ \E i \in 1..(Len(logs[last.group][last.span]) - 1) :
                logs[last.group][last.span][i].time < r.time

\* The indices of the tracked entry in its span.
TrackedIdx ==
    LET k == TrackedEntry
    IN IF k.group \in DOMAIN logs /\ k.span \in DOMAIN logs[k.group]
       THEN {i \in 1..Len(logs[k.group][k.span]) :
                Keys(logs[k.group][k.span])[i] = <<k.message, k.level>>}
       ELSE {}

TrackedAt(i) == logs[TrackedEntry.group][TrackedEntry.span][i]

\* C3 as stated: after N >= 1 writes of the same (message, level) to the same
\* (group, span) of an enabled store, whatever is written in between, the
\* span holds exactly one entry for the pair, with count N and lastSeen the
\* time of the last of the N writes.
C3_Original ==
    probe.n >= 1 =>
        /\ Cardinality(TrackedIdx) = 1
        /\ \A i \in TrackedIdx :
              TrackedAt(i).count = probe.n /\ TrackedAt(i).time = probe.t

\* C3 amended: the span holds at most one entry for the pair; an entry that
\* is there counts the writes of the pair since it was last inserted and was
\* last seen at the last of them; and as long as no eviction (of the entry,
\* of its span or of its group) has removed it, it is there with count N.
C3_CountSinceInserted ==
    probe.n >= 1 =>
        /\ Cardinality(TrackedIdx) <= 1
        /\ \A i \in TrackedIdx :
              TrackedAt(i).count = probe.since /\ TrackedAt(i).time = probe.t
        /\ ~probe.lost => (TrackedIdx # {} /\ probe.since = probe.n)

\* The pair was written twice and never evicted, and the last write went
\* somewhere else.
C3_Witness ==
    /\ probe.n = 2 /\ ~probe.lost
    /\ last.op = "log" /\ last.ran /\ MsgLen(last.message) # 0
    /\ <<last.group, last.span, last.message, last.level>> #
         <<TrackedEntry.group, TrackedEntry.span, TrackedEntry.message,
           TrackedEntry.level>>
    /\ \E i \in TrackedIdx : TrackedAt(i).count = 2

NoDuplicateEntries ==
    \A g \in DOMAIN logs : \A sp \in DOMAIN logs[g] :
        \A i, j \in 1..Len(logs[g][sp]) :
            i # j => Keys(logs[g][sp])[i] # Keys(logs[g][sp])[j]

SeparateLevelsStep ==
    (WriteRan /\ MsgLen(last'.message) # 0) =>
        LET g == last'.group
            sp == last'.span
            msg == Truncate(last'.message)
            s == IF g \in DOMAIN logs /\ sp \in DOMAIN logs[g]
                 THEN logs[g][sp] ELSE <<>>
            s2 == logs'[g][sp]
        IN ~HasKey(s, msg, last'.level) =>
              /\ Len(s2) >= 1
              /\ Keys(s2)[Len(s2)] = <<msg, last'.level>>
              /\ s2[Len(s2)].count = 1
              /\ \A i \in 1..Len(s) :
                    (s[i].message = msg /\ (Len(s) < numMessages \/ i > 1))
                       => \E j \in 1..Len(s2) : s2[j] = s[i]

\* C4: no span holds two entries with the same (message, level); a message
\* written at a level it does not have yet gets an entry of its own, beside
\* the entries of the same text at other levels.
C4_NoDuplicatePairs == []NoDuplicateEntries /\ [][SeparateLevelsStep]_vars

\* A span holds the same text at two levels.
C4_Witness ==
    \E g \in DOMAIN logs : \E sp \in DOMAIN logs[g] :
        \E i, j \in 1..Len(logs[g][sp]) :
            /\ logs[g][sp][i].message = logs[g][sp][j].message
            /\ logs[g][sp][i].level # logs[g][sp][j].level

\* C5: a write that introduces an unseen group while the store holds
\* maxGroups groups removes exactly one group, one with the oldest
\* last-written timestamp, with its spans, entries and timestamps; every
\* other group is kept as it is and the new group starts empty.
C5_OldestGroupEvicted ==
    [][ (WriteRan /\ last'.group \notin DOMAIN logs
            /\ Cardinality(DOMAIN logs) = numGroups) =>
          \E v \in DOMAIN logs :
             /\ \A o \in DOMAIN logs : groupTS[v] <= groupTS[o]
             /\ DOMAIN logs' = ((DOMAIN logs) \ {v}) \cup {last'.group}
             /\ DOMAIN groupTS' = DOMAIN logs'
             /\ DOMAIN spanTS' = DOMAIN logs'
             /\ \A o \in (DOMAIN logs) \ {v} :
                   /\ logs'[o] = logs[o]
                   /\ groupTS'[o] = groupTS[o]
                   /\ spanTS'[o] = spanTS[o]
             /\ DOMAIN logs'[last'.group] = {last'.span}
      ]_vars

\* C6: a write that introduces an unseen span in a group that holds
\* maxSpansPerGroup spans removes exactly one span of the group, one with
\* the oldest last-written timestamp, with its entries and its timestamp;
\* every other span of the group is kept.
C6_OldestSpanEvicted ==
    [][ (WriteRan /\ last'.group \in DOMAIN logs
            /\ last'.span \notin DOMAIN logs[last'.group]
            /\ Cardinality(DOMAIN logs[last'.group]) = numSpans) =>
          LET g == last'.group
          IN \E v \in DOMAIN logs[g] :
                /\ \A o \in DOMAIN logs[g] : spanTS[g][v] <= spanTS[g][o]
                /\ DOMAIN logs'[g] = ((DOMAIN logs[g]) \ {v}) \cup {last'.span}
                /\ DOMAIN spanTS'[g] = DOMAIN logs'[g]
                /\ \A o \in (DOMAIN logs[g]) \ {v} :
                      /\ logs'[g][o] = logs[g][o]
                      /\ spanTS'[g][o] = spanTS[g][o]
      ]_vars

\* C7: in any interleaving of writers with Disable and Enable, no step
\* changes groups, spans, entries, counts or timestamps while the enabled
\* flag is false, not even the step of a write already in flight.
C7_NoWriteWhileDisabled ==
    [][ ~enabled => UNCHANGED <<logs, groupTS, spanTS>> ]_vars

\* C8: in a sequential run no step taken while the store is disabled, and
\* neither Disable nor Enable, changes groups, spans, entries, counts or
\* timestamps; a write dropped while disabled is not counted, and the writes
\* after Enable count on top of the entries from before Disable.
C8_DisabledWritesAreNoOps ==
    /\ [][ (~enabled \/ ~enabled') => UNCHANGED <<logs, groupTS, spanTS>> ]_vars
    /\ [](probe.dropped /\ ~probe.lost =>
            /\ TrackedIdx # {}
            /\ \A i \in TrackedIdx :
                  TrackedAt(i).count = probe.n /\ TrackedAt(i).time = probe.t)

\* The tracked entry was written, a write of it was dropped while the store
\* was disabled, and after Enable its second write made its count 2.
C8_Witness ==
    /\ probe.dropped /\ ~probe.lost /\ probe.n = 2 /\ enabled
    /\ last.op = "log" /\ last.ran /\ last.did.duplicate
    /\ \E i \in TrackedIdx : TrackedAt(i).count = 2

\* The bucket maps and the timestamp maps have the same keys.
InSync ==
    /\ DOMAIN logs = DOMAIN groupTS
    /\ DOMAIN logs = DOMAIN spanTS
    /\ \A g \in DOMAIN logs : DOMAIN logs[g] = DOMAIN spanTS[g]

WriterInside == \E t \in Threads : pc[t] \in InLock

\* C9: whenever no writer holds exclusive access the three timestamp maps
\* have the keys of the bucket maps, and no reader holds the lock while a
\* writer is inside.
C9_MapsInSync ==
    /\ mu.readers # {} => ~WriterInside
    /\ ~WriterInside => InSync

\* A reader holds the lock over a store that a write has filled, while the
\* next writer waits for the reader to leave.
C9_Witness ==
    /\ \E t \in Threads : pc[t] = "L139" /\ t \in mu.readers
    /\ \E t \in Threads : pc[t] = "L319w" /\ mu.w = t
    /\ \E g \in DOMAIN logs : \E sp \in DOMAIN logs[g] : Len(logs[g][sp]) = 1

\* ret lists the entries of s, most recently seen first.
SortedCopy(ret, s) ==
    /\ Len(ret) = Len(s)
    /\ {ret[i] : i \in 1..Len(ret)} = {s[i] : i \in 1..Len(s)}
    /\ \A i, j \in 1..Len(ret) : i < j => ret[i].time >= ret[j].time

\* C10: Logs(group) returns one list per span of the group, the lists in
\* order of span last-written timestamp, most recent first, each list the
\* entries of its span in order of lastSeen, most recent first; for a group
\* that does not exist it returns an empty result.
C10_LogsOrdered ==
    last.op = "Logs" =>
        IF last.group \notin DOMAIN logs THEN last.ret = <<>>
        ELSE LET g == last.group
             IN \E order \in RangeOrders(DOMAIN logs[g]) :
                   /\ Len(last.ret) = Len(order)
                   /\ \A i, j \in 1..Len(order) :
                         i < j => spanTS[g][order[i]] >= spanTS[g][order[j]]
                   /\ \A i \in 1..Len(order) :
                         SortedCopy(last.ret[i], logs[g][order[i]])

\* Logs returned two spans written at different times, and a list of two
\* entries whose lastSeen order is the reverse of their insertion order.
C10_Witness ==
    /\ last.op = "Logs" /\ last.group \in DOMAIN logs
    /\ Len(last.ret) >= 2
    /\ \E sp, sq \in DOMAIN logs[last.group] :
          spanTS[last.group][sp] # spanTS[last.group][sq]
    /\ \E sp \in DOMAIN logs[last.group] :
          LET s == logs[last.group][sp]
          IN Len(s) >= 2 /\ s[1].time > s[2].time

\* C11: a write of a non-empty message to an enabled store is never turned
\* away, however full the store is: right after it the written group and
\* span exist and the span holds an entry with the (truncated) message and
\* the level, last seen at the time of this write.
C11_WriteNeverRejected ==
    [][ (WriteRan /\ MsgLen(last'.message) # 0) =>
          /\ last'.group \in DOMAIN logs'
          /\ last'.span \in DOMAIN logs'[last'.group]
          /\ \E i \in 1..Len(logs'[last'.group][last'.span]) :
                LET e == logs'[last'.group][last'.span][i]
                IN /\ e.message.head = last'.message.head
                   /\ e.message.len = IF last'.message.len > maxMsgLen
                                      THEN maxMsgLen ELSE last'.message.len
                   /\ e.level = last'.level
                   /\ e.time = last'.now
      ]_vars

\* A write of a new message has just found its group, its span and the
\* store full, and its entry is there.
C11_Witness ==
    /\ last.op = "log" /\ last.ran /\ MsgLen(last.message) # 0
    /\ ~last.did.duplicate
    /\ last.did.entriesBefore = numMessages
    /\ Cardinality(DOMAIN logs) = numGroups
    /\ Cardinality(DOMAIN logs[last.group]) = numSpans
    /\ HasKey(logs[last.group][last.span], last.message, last.level)

\* The write of this step keeps the entries of every span that stays, creates
\* its group and its span if they are new and stamps both with its time.
EmptyWriteBookkeeping ==
    LET g == last'.group
        sp == last'.span
    IN /\ g \in DOMAIN logs' /\ sp \in DOMAIN logs'[g]
       /\ groupTS'[g] = last'.now /\ spanTS'[g][sp] = last'.now
       /\ logs'[g][sp] = IF g \in DOMAIN logs /\ sp \in DOMAIN logs[g]
                         THEN logs[g][sp] ELSE <<>>
       /\ \A h \in (DOMAIN logs) \cap (DOMAIN logs') :
             \A x \in (DOMAIN logs[h]) \cap (DOMAIN logs'[h]) :
                logs'[h][x] = logs[h][x]

\* The write of this step, when its group is new and the store is full,
\* removes one group with the oldest timestamp, and when its span is new and
\* its group is full, one span with the oldest timestamp.
EvictsAtCapacity ==
    LET g == last'.group
        sp == last'.span
    IN /\ (g \notin DOMAIN logs /\ Cardinality(DOMAIN logs) >= numGroups) =>
             \E v \in DOMAIN logs :
                /\ \A o \in DOMAIN logs : groupTS[v] <= groupTS[o]
                /\ DOMAIN logs' = ((DOMAIN logs) \ {v}) \cup {g}
       /\ (g \in DOMAIN logs /\ sp \notin DOMAIN logs[g]
             /\ Cardinality(DOMAIN logs[g]) >= numSpans) =>
             \E v \in DOMAIN logs[g] :
                /\ \A o \in DOMAIN logs[g] : spanTS[g][v] <= spanTS[g][o]
                /\ DOMAIN logs'[g] = ((DOMAIN logs[g]) \ {v}) \cup {sp}

\* C16: a write to an enabled store whose formatted message is empty creates
\* no entry and changes no entry, creates its group and span if they are new
\* (the span with no entries), refreshes the timestamps of both, and evicts
\* the oldest group or span when the capacity is reached.
C16_EmptyMessageSideEffects ==
    [][ (WriteRan /\ MsgLen(last'.message) = 0) =>
           (EmptyWriteBookkeeping /\ EvictsAtCapacity) ]_vars

\* The groups other than the written one that the step removes, and the
\* spans of the written group other than the written one that it removes.
GroupsRemoved == ((DOMAIN logs) \ {last'.group}) \ (DOMAIN logs')

SpansRemoved ==
    IF last'.group \in DOMAIN logs
    THEN ((DOMAIN logs[last'.group]) \ {last'.span}) \ (DOMAIN logs'[last'.group])
    ELSE {}

\* The step changes the entries of the written span in one of the three ways
\* of a write: not at all, count and time of one entry, or one entry
\* appended, with the first one removed or none.
EntriesFrame ==
    LET g == last'.group
        sp == last'.span
        s == IF g \in DOMAIN logs /\ sp \in DOMAIN logs[g] THEN logs[g][sp] ELSE <<>>
        s2 == logs'[g][sp]
    IN \/ s2 = s
       \/ /\ Len(s2) = Len(s)
          /\ \E i \in 1..Len(s) :
                /\ s2[i] = [s[i] EXCEPT !.count = s2[i].count, !.time = s2[i].time]
                /\ \A j \in (1..Len(s)) \ {i} : s2[j] = s[j]
       \/ /\ Len(s2) >= 1
          /\ \/ SubSeq(s2, 1, Len(s2) - 1) = s
             \/ s # <<>> /\ SubSeq(s2, 1, Len(s2) - 1) = Tail(s)

\* C17: a write to (g, s) leaves every other group as it is, except that it
\* removes exactly one other group when g is new and the store is full; in
\* g it leaves every span other than s as it is, except that it removes
\* exactly one when s is new and g is full; and in s it changes at most one
\* entry, or removes at most the oldest inserted one and appends the new one.
C17_WriteFrame ==
    [][ WriteRan =>
          LET g == last'.group
              sp == last'.span
              newG == g \notin DOMAIN logs
              newS == ~newG /\ sp \notin DOMAIN logs[g]
          IN /\ \A h \in ((DOMAIN logs) \ {g}) \ GroupsRemoved :
                   /\ logs'[h] = logs[h]
                   /\ groupTS'[h] = groupTS[h]
                   /\ spanTS'[h] = spanTS[h]
             /\ Cardinality(GroupsRemoved) =
                   IF newG /\ Cardinality(DOMAIN logs) >= numGroups THEN 1 ELSE 0
             /\ ~newG =>
                   /\ \A x \in ((DOMAIN logs[g]) \ {sp}) \ SpansRemoved :
                         /\ logs'[g][x] = logs[g][x]
                         /\ spanTS'[g][x] = spanTS[g][x]
                   /\ Cardinality(SpansRemoved) =
                         IF newS /\ Cardinality(DOMAIN logs[g]) >= numSpans
                         THEN 1 ELSE 0
             /\ EntriesFrame
      ]_vars

\* C18: with a clock that never goes backwards, in every reachable state
\* every group has at least one span, the group's last-written timestamp is
\* the greatest of its spans' last-written timestamps, and a span's
\* last-written timestamp is at least the lastSeen of each of its entries.
C18_TimestampsConsistent ==
    \A g \in DOMAIN logs :
        /\ DOMAIN logs[g] # {}
        /\ \E sp \in DOMAIN spanTS[g] : spanTS[g][sp] = groupTS[g]
        /\ \A sp \in DOMAIN spanTS[g] : spanTS[g][sp] <= groupTS[g]
        /\ \A sp \in DOMAIN logs[g] : \A i \in 1..Len(logs[g][sp]) :
              logs[g][sp][i].time <= spanTS[g][sp]

\* A group holds two spans written at different times, and a span holds an
\* entry last seen before the span was last written.
C18_Witness ==
    \E g \in DOMAIN logs :
        /\ \E sp, sq \in DOMAIN logs[g] : spanTS[g][sp] < spanTS[g][sq]
        /\ \E sp \in DOMAIN logs[g] : \E i \in 1..Len(logs[g][sp]) :
              logs[g][sp][i].time < spanTS[g][sp]

\* C14: the store that Noop() returns stays inert: after any sequence of
\* operations of the public interface it holds no group, no span and no
\* entry.
C14_NoopInert ==
    vocab.noop => (logs = EmptyMap /\ groupTS = EmptyMap /\ spanTS = EmptyMap)

\* Every stored message has between 1 and maxMsgLen bytes.
StoredLengths ==
    \A g \in DOMAIN logs : \A sp \in DOMAIN logs[g] :
        \A i \in 1..Len(logs[g][sp]) :
            /\ MsgLen(logs[g][sp][i].message) >= 1
            /\ MsgLen(logs[g][sp][i].message) <= maxMsgLen

\* A write of a message longer than maxMsgLen leaves an entry holding its
\* first maxMsgLen bytes, and counts on an entry of its level that already
\* held those bytes instead of adding a second one.
LongWriteStep ==
    (WriteRan /\ MsgLen(last'.message) > maxMsgLen) =>
        LET g == last'.group
            sp == last'.span
            cut == [head |-> last'.message.head, len |-> maxMsgLen, rest |-> ""]
            s == IF g \in DOMAIN logs /\ sp \in DOMAIN logs[g]
                 THEN logs[g][sp] ELSE <<>>
            s2 == logs'[g][sp]
        IN /\ HasKey(s2, cut, last'.level)
           /\ \A i \in 1..Len(s) :
                 Keys(s)[i] = <<cut, last'.level>> =>
                    /\ Len(s2) = Len(s)
                    /\ s2[i] = [s[i] EXCEPT !.count = s[i].count + 1,
                                            !.time = last'.now]

\* C20: every stored message is non-empty and at most 1000 bytes long; a
\* formatted message longer than 1000 bytes is stored as its first 1000
\* bytes, and two writes of one level whose messages share their first 1000
\* bytes coalesce into one entry.
C20_TruncatedAndCoalesced == []StoredLengths /\ [][LongWriteStep]_vars

\* A second message longer than maxMsgLen has just been counted on the
\* entry that holds the first maxMsgLen bytes of both.
C20_Witness ==
    /\ last.op = "log" /\ last.ran /\ last.did.duplicate
    /\ MsgLen(last.message) = maxMsgLen + 1
    /\ \E i \in 1..Len(logs[last.group][last.span]) :
          LET e == logs[last.group][last.span][i]
          IN /\ e.message.head = last.message.head
             /\ MsgLen(e.message) = maxMsgLen
             /\ e.count = 2

\* The names of the members of a serialized object, in the order written.
JsonKeys(members) == [i \in 1..Len(members) |-> members[i][1][2]]

\* The members are in order of these timestamps, most recent first, and
\* no key is written twice.
KeysMostRecentFirst(members, ts) ==
    \A i, k \in 1..Len(members) :
        i < k => /\ ts[JsonKeys(members)[i]] >= ts[JsonKeys(members)[k]]
                 /\ JsonKeys(members)[i] # JsonKeys(members)[k]

\* lines are the formatted entries of a span, most recently seen first.
LinesMostRecentFirst(lines, entries) ==
    /\ Len(lines) = Len(entries)
    /\ \E perm \in RangeOrders(1..Len(entries)) :
          /\ \A i, k \in 1..Len(entries) :
                i < k => entries[perm[i]].time >= entries[perm[k]].time
          /\ \A i \in 1..Len(entries) :
                lines[i] = FormattedMessage(entries[perm[i]],
                                            last.withExactTime, last.now)

\* C12: the serialized form that ToMap returns lists the groups in order of
\* group last-written timestamp, most recent first, the spans of each group
\* in order of span last-written timestamp, most recent first, and the lines
\* of each span in order of lastSeen, most recent first; and it holds the
\* same groups, spans and lines as the mapping the call returns.
C12_ToMapOrdered ==
    last.op = "ToMap" =>
        /\ KeysMostRecentFirst(last.json, groupTS)
        /\ {JsonKeys(last.json)[i] : i \in 1..Len(last.json)} = DOMAIN last.m
        /\ \A i \in 1..Len(last.json) :
              LET g == JsonKeys(last.json)[i]
                  spans == last.json[i][2]
              IN /\ KeysMostRecentFirst(spans, spanTS[g])
                 /\ {JsonKeys(spans)[k] : k \in 1..Len(spans)} = DOMAIN last.m[g]
                 /\ \A k \in 1..Len(spans) :
                       /\ spans[k][2][2] = last.m[g][JsonKeys(spans)[k]]
                       /\ LinesMostRecentFirst(spans[k][2][2],
                                               logs[g][JsonKeys(spans)[k]])

\* ToMap returned three groups written at three different times; the one
\* it lists first was written twice, the second time last of all.
C12_Witness ==
    /\ last.op = "ToMap" /\ Len(last.json) = 3
    /\ \A i, k \in 1..3 :
          i < k => groupTS[JsonKeys(last.json)[i]] > groupTS[JsonKeys(last.json)[k]]
    /\ \E g \in DOMAIN logs : \E i \in 1..Len(logs[g]["s1"]) :
          logs[g]["s1"][i].count = 2 /\ logs[g]["s1"][i].time = groupTS[g]
                                     /\ JsonKeys(last.json)[1] = g

\* name starts with prefix.
StartsWith(name, prefix) ==
    \E k \in 0..Len(Bytes(name)) : SubSeq(Bytes(name), 1, k) = Bytes(prefix)

\* C13: ToMap with a non-empty groupFilter returns exactly the stored groups
\* whose name starts with it, with a non-empty spanFilter each returned group
\* holds exactly its spans whose name starts with it, and an empty filter
\* excludes nothing.
C13_PrefixFilters ==
    last.op = "ToMap" =>
        /\ DOMAIN last.m =
              {g \in DOMAIN logs :
                  last.groupFilter = "" \/ StartsWith(g, last.groupFilter)}
        /\ \A g \in DOMAIN last.m :
              DOMAIN last.m[g] =
                 {sp \in DOMAIN logs[g] :
                     last.spanFilter = "" \/ StartsWith(sp, last.spanFilter)}

\* Over the groups g1, g10 and g2 the filter "g1" returned g1 and g10.
C13_Witness ==
    /\ last.op = "ToMap" /\ last.groupFilter = "g1"
    /\ DOMAIN logs = {"g1", "g10", "g2"}
    /\ DOMAIN last.m = {"g1", "g10"}

\* The calls that read.
ReadOps == {"ListGroups", "ListSpans", "Logs", "ToMap", "IsEnabled"}

\* C19: ListGroups, ListSpans, Logs, ToMap and IsEnabled leave the store as
\* it is: groups, spans, timestamps, counts and the insertion order of the
\* entries of every span, which decides the next eviction, and the flag.
C19_ReadsChangeNothing ==
    [][ last'.op \in ReadOps =>
           UNCHANGED <<logs, groupTS, spanTS, enabled>> ]_vars

\* Logs or ToMap has just returned the entries of a span in an order that is
\* not the order in which the span holds them.
C19_Witness ==
    /\ last.op \in {"Logs", "ToMap"}
    /\ \E g \in DOMAIN logs : \E sp \in DOMAIN logs[g] :
          /\ Len(logs[g][sp]) = 2
          /\ logs[g][sp][1].time < logs[g][sp][2].time

\* A goroutine that asks for the lock, shared or exclusive, holds it in
\* neither way.
NoReentry ==
    \A t \in Threads :
        pc[t] \in {"L136", "L265", "L253", "L259", "L319"} =>
            (t \notin mu.readers /\ mu.w # t)

\* C15: with any goroutines issuing writes, reads, Enable and Disable and a
\* fair scheduler, every call that has started returns, and no goroutine
\* asks for the lock while it holds it: the write path has released the
\* shared access of its enabled check when it asks for exclusive access.
C15_EveryCallReturns ==
    /\ []NoReentry
    /\ \A t \in Threads : (pc[t] # "idle") ~> (pc[t] = "idle")

\* A write that has passed its enabled check waits for the lock while
\* another writer holds it.
C15_Witness ==
    \E t, u \in Threads :
        pc[t] = "L319" /\ pc[u] \in InLock /\ mu.w = u

====
